---- MODULE Spec2Model ----
(***************************************************************************)
(* MultiComboBox (src/src/components/ComboBox/MultiComboBox.tsx) as a      *)
(* state machine: the props the owner supplies, the three useState cells   *)
(* of the component, the deferred focus timers and the callbacks each      *)
(* handler invokes.  Strings are sequences of one-character strings.       *)
(***************************************************************************)
EXTENDS Integers, Sequences, FiniteSets, TLC

VARIABLES
  items,                  \* prop items
  selectedItems,          \* prop selectedItems (owned by the caller)
  disabled,               \* prop disabled
  creatable,              \* prop creatable
  controlledInputValue,   \* prop inputValue, Undefined when not supplied
  isFocused,              \* useState(false)
  uncontrolledInputValue, \* useState('')
  isComposing,            \* useState(false)
  activeOptionIndex,      \* useListBox: 0 is "no active option"
  timers,                 \* pending setTimeout(() => focus(), 0) callbacks
  calls,                  \* owner callbacks invoked by the last step, in order
  last,                   \* name of the last step
  blursSinceFocus,        \* onBlur invocations since the last entry into focused
  rectCalculated,         \* the last step's commit ran calculateDropdownRect
  lastFocusCall           \* the later of the owner's onFocus / onBlur, "none" before both

vars == <<items, selectedItems, disabled, creatable, controlledInputValue, isFocused,
          uncontrolledInputValue, isComposing, activeOptionIndex, timers, calls, last,
          blursSinceFocus, rectCalculated, lastFocusCall>>

----------------------------------------------------------------------------
(* Bounds *)

MaxTextLen == 1
MaxQueryLen == 2
MaxSelected == 2
MaxItems == 2
MaxTimers == 2

----------------------------------------------------------------------------
(* Values *)

Alphabet == {"a", "A", "b"}

Undefined == <<"undefined">>

RECURSIVE SeqsUpTo(_, _)
SeqsUpTo(S, n) ==
  IF n = 0 THEN {<<>>}
  ELSE LET shorter == SeqsUpTo(S, n - 1)
       IN  shorter \cup {Append(s, x) : s \in {t \in shorter : Len(t) = n - 1}, x \in S}

TypedAlphabet == {"b"}

TypedTexts == SeqsUpTo(TypedAlphabet, MaxTextLen)
QueryTexts == SeqsUpTo(Alphabet, MaxQueryLen)

Item(l, v) == [label |-> l, value |-> v]

ItemUniverse == {Item(<<"a">>, 1), Item(<<"a">>, 2), Item(<<"A", "b">>, 2), Item(<<"b">>, 1)}

DefaultItems == <<Item(<<"a">>, 1), Item(<<"A", "b">>, 2)>>

SelectionUniverse == {Item(<<"a">>, 1), Item(<<"a">>, 2), Item(<<"b">>, 1)}

SelectionLists == SeqsUpTo(SelectionUniverse, MaxSelected)
QuerySelections == SeqsUpTo(ItemUniverse, MaxSelected)
ItemLists == SeqsUpTo(ItemUniverse \ {Item(<<"a">>, 2)}, MaxItems)

InSeq(x, s) == \E i \in 1..Len(s) : s[i] = x

----------------------------------------------------------------------------
(* Pure functions of the render pass *)

\* comboBoxHelper.convertMatchableString: folds case (and width) for matching.
FoldChar(c) == IF c = "A" THEN "a" ELSE c
convertMatchableString(original) == [i \in 1..Len(original) |-> FoldChar(original[i])]

\* String.prototype.includes
includes(hay, needle) ==
  \E i \in 0..(Len(hay) - Len(needle)) :
     \A j \in 1..Len(needle) : hay[i + j] = needle[j]

isInputControlled == controlledInputValue # Undefined

inputValue == IF isInputControlled THEN controlledInputValue ELSE uncontrolledInputValue

selectedLabelsOf(sel) == [i \in 1..Len(sel) |-> sel[i].label]

selectedLabels == selectedLabelsOf(selectedItems)

\* a filter that matches the raw label against the raw input
filteredItemsRawMatch(its, sel, text) ==
  LET keep(it) ==
        IF InSeq(it.label, selectedLabelsOf(sel)) THEN FALSE
        ELSE IF text = <<>> THEN TRUE
        ELSE includes(it.label, text)
  IN  SelectSeq(its, keep)

\* a filter that takes the empty-input shortcut before it looks at the selection
filteredItemsInputFirst(its, sel, text) ==
  LET keep(it) ==
        IF text = <<>> THEN TRUE
        ELSE IF InSeq(it.label, selectedLabelsOf(sel)) THEN FALSE
        ELSE includes(convertMatchableString(it.label), convertMatchableString(text))
  IN  SelectSeq(its, keep)

\* a filter that drops an item only when the very same item is selected
filteredItemsByIdentity(its, sel, text) ==
  LET keep(it) ==
        IF InSeq(it, sel) THEN FALSE
        ELSE IF text = <<>> THEN TRUE
        ELSE includes(convertMatchableString(it.label), convertMatchableString(text))
  IN  SelectSeq(its, keep)

filteredItemsOf(its, sel, text) ==
  LET keep(it) ==
        IF InSeq(it.label, selectedLabelsOf(sel)) THEN FALSE
        ELSE IF text = <<>> THEN TRUE
        ELSE includes(convertMatchableString(it.label), convertMatchableString(text))
  IN  SelectSeq(its, keep)

filteredItems == filteredItemsOf(items, selectedItems, inputValue)

\* a duplicate test on the folded strings
isDuplicateFolded ==
  \E i \in 1..Len(items) :
     convertMatchableString(items[i].label) = convertMatchableString(inputValue)

isDuplicate == \E i \in 1..Len(items) : items[i].label = inputValue

hasSelectableExactMatch == \E i \in 1..Len(filteredItems) : filteredItems[i].label = inputValue

isAddable == creatable /\ inputValue # <<>> /\ ~isDuplicate

isDuplicateFlag == creatable /\ inputValue # <<>> /\ isDuplicate /\ ~hasSelectableExactMatch

----------------------------------------------------------------------------
(* Callback records: <<name>> or <<name, argument>> *)

Count(name, cs) == Cardinality({i \in 1..Len(cs) : cs[i][1] = name})

Invoked(name) == Count(name, calls) > 0
InvokedNext(name) == Count(name, calls') > 0

Min(a, b) == IF a < b THEN a ELSE b

\* Bookkeeping of what the owner has observed; it reads only the step's outcome.
Observe ==
  /\ blursSinceFocus' =
       (IF ~isFocused /\ isFocused' THEN 0 ELSE blursSinceFocus) + Count("onBlur", calls')
  /\ lastFocusCall' =
       IF Count("onBlur", calls') > 0 THEN "onBlur"
       ELSE IF Count("onFocus", calls') > 0 THEN "onFocus"
       ELSE lastFocusCall

Props == <<items, disabled, creatable, controlledInputValue>>

----------------------------------------------------------------------------
(* Hooks and handlers of the component *)

\* useLayoutEffect with deps [isFocused, isInputControlled, selectedItems]:
\* `fresh` says the owner passed a new selectedItems array, `typed` is the value
\* the cell holds when the effect does not run.
\* an effect whose deps leave out selectedItems
inputResetEffectOnFocusOnly(fresh, typed) ==
  uncontrolledInputValue' =
    IF isFocused' # isFocused /\ ~isInputControlled THEN <<>> ELSE typed

\* the reset with deps [isInputControlled, selectedItems] only
inputResetEffectOnSelectionOnly(fresh, typed) ==
  uncontrolledInputValue' =
    IF fresh /\ ~isInputControlled THEN <<>> ELSE typed

inputResetEffect(fresh, typed) ==
  uncontrolledInputValue' =
    IF (fresh \/ isFocused' # isFocused) /\ ~isInputControlled THEN <<>> ELSE typed

\* an effect that measures on every run, focused or not
dropdownRectEffectAlways(fresh) ==
  rectCalculated' = (fresh \/ isFocused' # isFocused)

\* useLayoutEffect with deps [calculateDropdownRect, isFocused, selectedItems];
\* outerRef.current is set from the first commit on
dropdownRectEffect(fresh) ==
  rectCalculated' = ((fresh \/ isFocused' # isFocused) /\ isFocused')

\* the two layout effects of a commit
layoutEffects(fresh, typed) ==
  /\ inputResetEffect(fresh, typed)
  /\ dropdownRectEffect(fresh)

\* a commit in which no dep of the layout effects changed
noLayoutEffect == rectCalculated' = FALSE

\* a focus that leaves the active option where it was
focusKeepsActiveOption ==
  /\ calls' = << <<"onFocus">> >>
  /\ isFocused' = TRUE
  /\ activeOptionIndex' = activeOptionIndex

focus ==
  /\ calls' = << <<"onFocus">> >>
  /\ isFocused' = TRUE
  /\ activeOptionIndex' = 0

\* a blur without its isFocused guard
blurUnguarded ==
  calls' = << <<"onBlur">> >> /\ isFocused' = FALSE

\* a blur that tells the owner and keeps the flag
blurKeepsFlag ==
  IF ~isFocused
    THEN calls' = <<>> /\ isFocused' = isFocused
    ELSE calls' = << <<"onBlur">> >> /\ isFocused' = isFocused

blur ==
  IF ~isFocused
    THEN calls' = <<>> /\ isFocused' = isFocused
    ELSE calls' = << <<"onBlur">> >> /\ isFocused' = FALSE

\* an onSelect that keeps the new selection itself
useListBoxOnSelectPersists(selected) ==
  /\ calls' = << <<"onSelect", selected>>,
                 <<"onChangeSelected", selectedItems \o <<selected>> >> >>
  /\ selectedItems' = selectedItems \o <<selected>>

\* an onSelect that puts the new item first
useListBoxOnSelectPrepend(selected) ==
  /\ calls' = << <<"onSelect", selected>>,
                 <<"onChangeSelected", <<selected>> \o selectedItems>> >>
  /\ selectedItems' = selectedItems

\* onSelect handed to useListBox
useListBoxOnSelect(selected) ==
  /\ calls' = << <<"onSelect", selected>>,
                 <<"onChangeSelected", selectedItems \o <<selected>> >> >>
  /\ selectedItems' = selectedItems

\* a delete that matches on the label alone
withoutLabel(sel, selectedItem) ==
  LET keep(selected) == selected.label # selectedItem.label
  IN  SelectSeq(sel, keep)

\* the filter of MultiSelectedItem's onDelete
withoutItem(sel, selectedItem) ==
  LET keep(selected) ==
        selected.label # selectedItem.label \/ selected.value # selectedItem.value
  IN  SelectSeq(sel, keep)

multiSelectedItemOnDelete(selectedItem) ==
  /\ calls' = << <<"onDelete", selectedItem>>,
                 <<"onChangeSelected", withoutItem(selectedItems, selectedItem)>> >>
  /\ selectedItems' = selectedItems

\* a Container onClick that does not look at disabled
containerOnClickIgnoresDisabled(inDeleteButton) ==
  IF ~inDeleteButton /\ ~isFocused
    THEN timers < MaxTimers /\ timers' = timers + 1
    ELSE timers' = timers

\* Container onClick
containerOnClick(inDeleteButton) ==
  IF ~inDeleteButton /\ ~disabled /\ ~isFocused
    THEN timers < MaxTimers /\ timers' = timers + 1
    ELSE timers' = timers

\* Container onKeyDown
containerOnKeyDown(key) ==
  IF key = "Escape"
    THEN blur
    ELSE calls' = <<>> /\ isFocused' = isFocused

\* useListBox: the options are the candidates, then the "add" option when addable
optionCount == Len(filteredItems) + (IF isAddable THEN 1 ELSE 0)

moveActiveOptionIndex(delta) ==
  activeOptionIndex' =
    IF optionCount = 0 THEN 0
    ELSE IF delta = 1 THEN (activeOptionIndex % optionCount) + 1
    ELSE IF activeOptionIndex <= 1 THEN optionCount
    ELSE Min(activeOptionIndex - 1, optionCount)

\* a handler that returns without touching state or calling back
noop ==
  /\ calls' = <<>>
  /\ UNCHANGED <<selectedItems, isFocused, activeOptionIndex>>

\* useListBox handleInputKeyDown: arrows move the active option, Enter takes it
handleInputKeyDown(key) ==
  CASE key = "ArrowDown" ->
         /\ moveActiveOptionIndex(1)
         /\ calls' = <<>>
         /\ UNCHANGED <<selectedItems, isFocused>>
    [] key = "ArrowUp" ->
         /\ moveActiveOptionIndex(-1)
         /\ calls' = <<>>
         /\ UNCHANGED <<selectedItems, isFocused>>
    [] key = "Enter" /\ activeOptionIndex \in 1..Len(filteredItems) ->
         /\ useListBoxOnSelect(filteredItems[activeOptionIndex])
         /\ UNCHANGED <<activeOptionIndex, isFocused>>
    [] key = "Enter" /\ isAddable /\ activeOptionIndex = Len(filteredItems) + 1 ->
         /\ calls' = << <<"onAdd", inputValue>> >>
         /\ UNCHANGED <<selectedItems, activeOptionIndex, isFocused>>
    [] OTHER -> noop

\* an Input onKeyDown that looks at isComposing for Tab alone
inputOnKeyDownComposingGuardsTab(key) ==
  IF key = "Tab"
    THEN IF isComposing THEN noop ELSE blur /\ UNCHANGED <<selectedItems, activeOptionIndex>>
    ELSE handleInputKeyDown(key)

\* an Input onKeyDown that does not look at isComposing
inputOnKeyDownWhileComposing(key) ==
  IF key = "Tab"
    THEN blur /\ UNCHANGED <<selectedItems, activeOptionIndex>>
    ELSE handleInputKeyDown(key)

\* Input onKeyDown
inputOnKeyDown(key) ==
  IF isComposing
    THEN noop
    ELSE IF key = "Tab"
      THEN blur /\ UNCHANGED <<selectedItems, activeOptionIndex>>
      ELSE handleInputKeyDown(key)

----------------------------------------------------------------------------
(* Steps: one per DOM event, timer or owner update *)

\* "Escape" stands for both spellings the handler accepts, 'Escape' and 'Esc'
Keys == {"Escape", "Tab", "ArrowDown", "ArrowUp", "Enter"}

\* a key goes down in the input, or on another element of the control (a chip's button)
KeyPresses == (Keys \X {"input"}) \cup ({"Escape", "Tab"} \X {"control"})

\* a click inside the control, outside the chips' delete buttons
Click ==
  /\ containerOnClick(FALSE)
  /\ calls' = <<>>
  /\ last' = "Click"
  /\ UNCHANGED <<Props, selectedItems, isFocused, uncontrolledInputValue, isComposing,
                 activeOptionIndex>>
  /\ noLayoutEffect
  /\ Observe

\* a click on the delete button of the i-th chip; the event bubbles to Container
DeleteClick(i) ==
  /\ i \in 1..Len(selectedItems)
  /\ ~disabled
  /\ multiSelectedItemOnDelete(selectedItems[i])
  /\ containerOnClick(TRUE)
  /\ last' = "Click"
  /\ UNCHANGED <<Props, isFocused, uncontrolledInputValue, isComposing, activeOptionIndex>>
  /\ noLayoutEffect
  /\ Observe

\* a callback deferred by Container onClick runs
TimerFires ==
  /\ timers > 0
  /\ timers' = timers - 1
  /\ focus
  /\ layoutEffects(FALSE, uncontrolledInputValue)
  /\ last' = "TimerFires"
  /\ UNCHANGED <<Props, selectedItems, isComposing>>
  /\ Observe

\* Input onFocus: the input element receives DOM focus
InputFocus ==
  /\ ~disabled
  /\ IF ~isFocused THEN focus ELSE calls' = <<>> /\ UNCHANGED <<isFocused, activeOptionIndex>>
  /\ layoutEffects(FALSE, uncontrolledInputValue)
  /\ last' = "InputFocus"
  /\ UNCHANGED <<Props, selectedItems, isComposing, timers>>
  /\ Observe

\* A key press.  In the input it runs Input onKeyDown and bubbles to Container
\* onKeyDown; Input onKeyDown has no branch for Escape and Container onKeyDown
\* has none for any other key.
KeyDown(key, target) ==
  /\ target = "input" => ~disabled
  /\ IF target = "input" /\ key # "Escape"
       THEN inputOnKeyDown(key)
       ELSE containerOnKeyDown(key) /\ UNCHANGED <<selectedItems, activeOptionIndex>>
  /\ layoutEffects(FALSE, uncontrolledInputValue)
  /\ last' = (IF key \in {"Escape", "Tab"} THEN key ELSE "KeyDown")
  /\ UNCHANGED <<Props, isComposing, timers>>
  /\ Observe

\* useOuterClick: a click outside the control and its list box
OuterClick ==
  /\ blur
  /\ layoutEffects(FALSE, uncontrolledInputValue)
  /\ last' = "OuterClick"
  /\ UNCHANGED <<Props, selectedItems, isComposing, activeOptionIndex, timers>>
  /\ Observe

CompositionStart ==
  /\ ~disabled
  /\ ~isComposing
  /\ isComposing' = TRUE
  /\ calls' = <<>>
  /\ last' = "Composition"
  /\ UNCHANGED <<Props, selectedItems, isFocused, uncontrolledInputValue, activeOptionIndex,
                 timers>>
  /\ noLayoutEffect
  /\ Observe

CompositionEnd ==
  /\ isComposing
  /\ isComposing' = FALSE
  /\ calls' = <<>>
  /\ last' = "Composition"
  /\ UNCHANGED <<Props, selectedItems, isFocused, uncontrolledInputValue, activeOptionIndex,
                 timers>>
  /\ noLayoutEffect
  /\ Observe

\* an Input onChange that writes the component's cell in both modes
InputChangeWritesCell(v) ==
  /\ ~disabled
  /\ v # inputValue
  /\ calls' = << <<"onChange", v>>, <<"onChangeInput", v>> >>
  /\ uncontrolledInputValue' = v
  /\ last' = "InputChange"
  /\ UNCHANGED <<Props, selectedItems, isFocused, isComposing, activeOptionIndex, timers>>
  /\ noLayoutEffect
  /\ Observe

\* Input onChange with e.currentTarget.value = v
InputChange(v) ==
  /\ ~disabled
  /\ v # inputValue
  /\ calls' = << <<"onChange", v>>, <<"onChangeInput", v>> >>
  /\ uncontrolledInputValue' = IF ~isInputControlled THEN v ELSE uncontrolledInputValue
  /\ last' = "InputChange"
  /\ UNCHANGED <<Props, selectedItems, isFocused, isComposing, activeOptionIndex, timers>>
  /\ noLayoutEffect
  /\ Observe

\* a click on the i-th candidate of the open list box
OptionClick(i) ==
  /\ isFocused
  /\ i \in 1..Len(filteredItems)
  /\ useListBoxOnSelect(filteredItems[i])
  /\ containerOnClick(FALSE)
  /\ last' = "Click"
  /\ UNCHANGED <<Props, isFocused, uncontrolledInputValue, isComposing, activeOptionIndex>>
  /\ noLayoutEffect
  /\ Observe

\* the owner renders with a new selectedItems array
SupplySelectedItems(S) ==
  /\ selectedItems' = S
  /\ calls' = <<>>
  /\ last' = "SupplySelectedItems"
  /\ UNCHANGED <<Props, isFocused, isComposing, activeOptionIndex, timers>>
  /\ layoutEffects(TRUE, uncontrolledInputValue)
  /\ Observe

\* the owner of a controlled input renders with a new inputValue
SupplyInputValue(v) ==
  /\ isInputControlled
  /\ v # controlledInputValue
  /\ controlledInputValue' = v
  /\ calls' = <<>>
  /\ last' = "Owner"
  /\ UNCHANGED <<items, disabled, creatable, selectedItems, isFocused, uncontrolledInputValue,
                 isComposing, activeOptionIndex, timers>>
  /\ noLayoutEffect
  /\ Observe

\* the owner renders with the other value of disabled
SetDisabled ==
  /\ disabled' = ~disabled
  /\ calls' = <<>>
  /\ last' = "Owner"
  /\ UNCHANGED <<items, creatable, controlledInputValue, selectedItems, isFocused,
                 uncontrolledInputValue, isComposing, activeOptionIndex, timers>>
  /\ noLayoutEffect
  /\ Observe

----------------------------------------------------------------------------
(* The component in use *)

Init ==
  /\ items = DefaultItems
  /\ selectedItems \in SelectionLists
  /\ disabled = FALSE
  /\ creatable = TRUE
  /\ controlledInputValue \in {Undefined, <<>>}
  /\ isFocused = FALSE
  /\ uncontrolledInputValue = <<>>
  /\ isComposing = FALSE
  /\ activeOptionIndex = 0
  /\ timers = 0
  /\ calls = <<>>
  /\ last = "mount"
  /\ blursSinceFocus = 0
  /\ rectCalculated = FALSE
  /\ lastFocusCall = "none"

Next ==
  \/ Click
  \/ \E i \in 1..MaxSelected : DeleteClick(i)
  \/ TimerFires
  \/ InputFocus
  \/ \E press \in KeyPresses : KeyDown(press[1], press[2])
  \/ OuterClick
  \/ CompositionStart
  \/ CompositionEnd
  \/ \E v \in TypedTexts : InputChange(v)
  \/ \E i \in 1..Len(DefaultItems) : OptionClick(i)
  \/ \E S \in SelectionLists : SupplySelectedItems(S)
  \/ \E v \in TypedTexts : SupplyInputValue(v)
  \/ SetDisabled

Spec == Init /\ [][Next]_vars

(* The filter alone: every item list, selection and input text of the bounds *)

FilterInit ==
  /\ items \in ItemLists
  /\ selectedItems \in QuerySelections
  /\ disabled = FALSE
  /\ creatable \in BOOLEAN
  /\ controlledInputValue = Undefined
  /\ isFocused = TRUE
  /\ uncontrolledInputValue = <<>>
  /\ isComposing = FALSE
  /\ activeOptionIndex = 0
  /\ timers = 0
  /\ calls = <<>>
  /\ last = "mount"
  /\ blursSinceFocus = 0
  /\ rectCalculated = FALSE
  /\ lastFocusCall = "none"

FilterNext == \E v \in QueryTexts : InputChange(v)

FilterSpec == FilterInit /\ [][FilterNext]_vars

(* An owner that keeps no list of its own: it renders with every list that
   onChangeSelected hands it before the next event arrives *)

DistinctLabels(s) == \A i, j \in 1..Len(s) : s[i].label = s[j].label => i = j

\* the list handed to onChangeSelected in the last step
emittedSelection ==
  LET i == CHOOSE k \in 1..Len(calls) : calls[k][1] = "onChangeSelected"
  IN  calls[i][2]

\* onChangeSelected of the owner: setState of the list, then the re-render
Adopt ==
  /\ Invoked("onChangeSelected")
  /\ SupplySelectedItems(emittedSelection)

AdoptInit ==
  /\ items \in {its \in SeqsUpTo(ItemUniverse, MaxItems) : DistinctLabels(its)}
  /\ selectedItems \in {S \in SelectionLists : DistinctLabels(S)}
  /\ disabled = FALSE
  /\ creatable = TRUE
  /\ controlledInputValue = Undefined
  /\ isFocused = FALSE
  /\ uncontrolledInputValue = <<>>
  /\ isComposing = FALSE
  /\ activeOptionIndex = 0
  /\ timers = 0
  /\ calls = <<>>
  /\ last = "mount"
  /\ blursSinceFocus = 0
  /\ rectCalculated = FALSE
  /\ lastFocusCall = "none"

AdoptNext ==
  \/ Adopt
  \/ ~Invoked("onChangeSelected") /\ Click
  \/ ~Invoked("onChangeSelected") /\ \E i \in 1..(MaxSelected + MaxItems) : DeleteClick(i)
  \/ ~Invoked("onChangeSelected") /\ TimerFires
  \/ ~Invoked("onChangeSelected") /\ InputFocus
  \/ ~Invoked("onChangeSelected") /\ \E press \in KeyPresses : KeyDown(press[1], press[2])
  \/ ~Invoked("onChangeSelected") /\ OuterClick
  \/ ~Invoked("onChangeSelected") /\ \E v \in TypedTexts : InputChange(v)
  \/ ~Invoked("onChangeSelected") /\ \E i \in 1..MaxItems : OptionClick(i)

AdoptSpec == AdoptInit /\ [][AdoptNext]_vars

----------------------------------------------------------------------------
(* Properties *)


\* C1: no candidate of the filtered list carries the label of a selected item,
\* whatever the items, the selection and the input text.
C1_CandidatesExcludeSelectedLabels ==
  \A i \in 1..Len(filteredItems) :
    \A j \in 1..Len(selectedItems) : filteredItems[i].label # selectedItems[j].label

\* an item is held back from a non-empty candidate list by its label alone
C1_Witness ==
  /\ inputValue # <<>>
  /\ Len(filteredItems) > 0
  /\ \E i \in 1..Len(items), j \in 1..Len(selectedItems) :
       items[i].label = selectedItems[j].label /\ items[i].value # selectedItems[j].value

\* C2: a step that selects c invokes onSelect(c) once and then onChangeSelected
\* once, with the owner's list followed by c; c is a candidate of the list box.
C2_SelectAppends ==
  Invoked("onSelect") =>
    /\ Len(calls) = 2
    /\ calls[1][1] = "onSelect"
    /\ InSeq(calls[1][2], filteredItems)
    /\ calls[2][1] = "onChangeSelected"
    /\ calls[2][2] = Append(selectedItems, calls[1][2])

\* a candidate was selected while the owner's list was not empty
C2_Witness ==
  /\ Invoked("onSelect")
  /\ Len(selectedItems) > 0
  /\ last = "Click"

Differs(e, d) == e.label # d.label \/ e.value # d.value

\* the entries of S that differ from d, in order
RECURSIVE Without(_, _)
Without(S, d) ==
  IF S = <<>> THEN <<>>
  ELSE IF Differs(Head(S), d) THEN <<Head(S)>> \o Without(Tail(S), d)
  ELSE Without(Tail(S), d)

\* C3: a step that deletes d invokes onDelete(d) and then onChangeSelected with
\* the owner's list less the entries equal to d in label and value; an entry
\* that differs in label or in value stays, in order.
C3_DeleteRemovesExactPair ==
  Invoked("onDelete") =>
    /\ Len(calls) = 2
    /\ calls[1][1] = "onDelete"
    /\ InSeq(calls[1][2], selectedItems)
    /\ calls[2][1] = "onChangeSelected"
    /\ calls[2][2] = Without(selectedItems, calls[1][2])

\* an item was deleted and an entry sharing only its label was kept
C3_Witness ==
  /\ Invoked("onDelete")
  /\ \E i \in 1..Len(calls[2][2]) :
       /\ calls[2][2][i].label = calls[1][2].label
       /\ calls[2][2][i].value # calls[1][2].value

\* C4 as stated: from the focused state every Escape and every Tab in the input
\* blurs the control, with one onBlur, composing or not.
C4_EscapeOrTabAlwaysBlurs ==
  [][\A key \in {"Escape", "Tab"} :
       (isFocused /\ KeyDown(key, "input")) => (~isFocused' /\ calls' = << <<"onBlur">> >>)]_vars

\* C4, amended: from the focused state Escape always blurs the control with one
\* onBlur, composing or not; Tab does so in the input while no composition is in
\* progress, and otherwise leaves the control focused and invokes nothing.
C4_EscapeAlwaysTabUnlessComposing ==
  [][\A press \in {"Escape", "Tab"} \X {"input", "control"} :
       (isFocused /\ KeyDown(press[1], press[2])) =>
         IF press[1] = "Escape" \/ (press[2] = "input" /\ ~isComposing)
           THEN ~isFocused' /\ calls' = << <<"onBlur">> >>
           ELSE isFocused' /\ calls' = <<>>]_vars

\* Escape has blurred the control in the middle of a composition
C4_Witness ==
  /\ last = "Escape"
  /\ isComposing
  /\ ~isFocused
  /\ calls = << <<"onBlur">> >>

\* C5: onBlur is invoked at most once after an entry into the focused state, and
\* only by a step that starts focused and ends blurred.
C5_BlurAtMostOncePerFocus ==
  [][/\ blursSinceFocus' <= 1
     /\ InvokedNext("onBlur") => (isFocused /\ ~isFocused')]_vars

\* a blur trigger arrived after the blur of this focus session and invoked nothing
C5_Witness ==
  /\ blursSinceFocus = 1
  /\ last \in {"OuterClick", "Escape", "Tab"}
  /\ calls = <<>>

\* C6: a click inside the control never focuses by itself; it defers one focus
\* exactly when it is outside the delete buttons, the control is enabled and it
\* is blurred, and otherwise defers nothing.
C6_ClickDefersFocusOnlyWhenAllowed ==
  [][/\ Click =>
          /\ isFocused' = isFocused
          /\ calls' = <<>>
          /\ timers' = IF ~disabled /\ ~isFocused THEN timers + 1 ELSE timers
     /\ \A i \in 1..Len(selectedItems) : DeleteClick(i) =>
          /\ isFocused' = isFocused
          /\ ~InvokedNext("onFocus")
          /\ timers' = timers
     /\ timers' > timers => (Click /\ ~disabled /\ ~isFocused)]_vars

\* a click on the disabled, blurred control has deferred nothing
C6_Witness ==
  /\ last = "Click"
  /\ calls = <<>>
  /\ disabled
  /\ ~isFocused
  /\ timers = 0

\* C7: a step that enters the focused state invokes onFocus and resets the
\* active option.
C7_EnterFocusedCallsOnFocusAndResets ==
  [][(~isFocused /\ isFocused') =>
       (calls' = << <<"onFocus">> >> /\ activeOptionIndex' = 0)]_vars

\* the control was focused by a deferred click, or by the input taking focus
C7_Witness ==
  /\ last \in {"TimerFires", "InputFocus"}
  /\ isFocused
  /\ calls = << <<"onFocus">> >>
  /\ activeOptionIndex = 0

\* C8 as stated: after a blur both flags are false.
C8_BlurResetsBothFlags ==
  Invoked("onBlur") => (~isFocused /\ ~isComposing)

\* C8, amended: a blur sets the focus flag to false and leaves the composition
\* flag as it was; only compositionend sets it to false.
C8_BlurResetsFocusKeepsComposing ==
  [][/\ InvokedNext("onBlur") => (~isFocused' /\ isComposing' = isComposing)
     /\ (isComposing /\ ~isComposing') => CompositionEnd]_vars

\* the control was blurred in the middle of a composition
C8_Witness ==
  /\ Invoked("onBlur")
  /\ ~isFocused
  /\ isComposing

\* C9: with no inputValue supplied, the input text the component holds is empty
\* once a new selectedItems list from the owner has been rendered.
C9_NewSelectionEmptiesUncontrolledInput ==
  (last = "SupplySelectedItems" /\ ~isInputControlled) => uncontrolledInputValue = <<>>

\* the owner has supplied a list to the focused, uncontrolled component
C9_Witness ==
  /\ last = "SupplySelectedItems"
  /\ ~isInputControlled
  /\ isFocused
  /\ uncontrolledInputValue = <<>>
  /\ Len(selectedItems) > 0

\* C10: a step that emits onChangeSelected leaves selectedItems and the
\* candidates as they were, and only a list from the owner changes selectedItems.
\* A selected item stays a candidate, and a select that follows a select of
\* another item emits the owner's list followed by its own item, without the
\* item selected before.
C10_SelectionOwnedByCaller ==
  [][/\ InvokedNext("onChangeSelected") =>
          /\ selectedItems' = selectedItems
          /\ filteredItems' = filteredItems
     /\ InvokedNext("onSelect") =>
          /\ InSeq(calls'[1][2], filteredItems')
          /\ calls'[2][2] = Append(selectedItems, calls'[1][2])
          /\ (Invoked("onSelect") /\ calls[1][2] # calls'[1][2]) =>
               ~InSeq(calls[1][2], calls'[2][2])
     /\ selectedItems' # selectedItems => \E S \in SelectionLists : SupplySelectedItems(S)]_vars

\* an item was selected, the owner has not supplied a list since, the item is
\* still a candidate and not in selectedItems, and another candidate is on offer
C10_Witness ==
  /\ Invoked("onSelect")
  /\ InSeq(calls[1][2], filteredItems)
  /\ ~InSeq(calls[1][2], selectedItems)
  /\ Len(selectedItems) > 0
  /\ Len(filteredItems) > 1

\* C11: the overlay position is recalculated by every step that enters the
\* focused state and by every step that changes selectedItems while focused, and
\* by no step that ends blurred.
C11_RectRecalculatedWhenFocused ==
  [][/\ (~isFocused /\ isFocused') => rectCalculated'
     /\ (isFocused /\ isFocused' /\ selectedItems' # selectedItems) => rectCalculated'
     /\ ~isFocused' => ~rectCalculated']_vars

\* the owner has supplied a list to the focused control and the position was
\* measured again
C11_Witness ==
  /\ last = "SupplySelectedItems"
  /\ isFocused
  /\ rectCalculated

IsSubstring(needle, hay) ==
  \E i \in 1..(Len(hay) + 1) :
     /\ i + Len(needle) - 1 <= Len(hay)
     /\ SubSeq(hay, i, i + Len(needle) - 1) = needle

LabelsOf(list) == {list[i].label : i \in 1..Len(list)}

IsCandidate(it) ==
  /\ it.label \notin LabelsOf(selectedItems)
  /\ \/ inputValue = <<>>
     \/ IsSubstring(convertMatchableString(inputValue), convertMatchableString(it.label))

\* the candidates among `list`, in the order of `list`
RECURSIVE Candidates(_)
Candidates(list) ==
  IF list = <<>> THEN <<>>
  ELSE (IF IsCandidate(Head(list)) THEN <<Head(list)>> ELSE <<>>) \o Candidates(Tail(list))

\* C12: the candidate list is exactly the items, in their order, whose label is
\* not selected and whose folded label contains the folded input (any item when
\* the input is empty); with no input and no selection it is the item list.
C12_CandidatesAreTheMatchingItems ==
  /\ filteredItems = Candidates(items)
  /\ (inputValue = <<>> /\ selectedItems = <<>>) => filteredItems = items

\* an input that matches only after folding narrows a list that the selection
\* narrows too
C12_Witness ==
  /\ convertMatchableString(inputValue) # inputValue
  /\ selectedItems # <<>>
  /\ Len(items) = 2
  /\ Len(filteredItems) = 1
  /\ ~includes(filteredItems[1].label, inputValue)

\* C13: with creatable and a non-empty input, addable holds iff no item has the
\* input as its label, and duplicate iff an item has it and no candidate has;
\* otherwise both are false; they never hold together.
C13_AddableAndDuplicateFlags ==
  LET on == creatable /\ inputValue # <<>>
  IN  /\ isAddable <=> (on /\ inputValue \notin LabelsOf(items))
      /\ isDuplicateFlag <=>
           (on /\ inputValue \in LabelsOf(items) /\ inputValue \notin LabelsOf(filteredItems))
      /\ ~(isAddable /\ isDuplicateFlag)

\* the input is the label of an item that is selected already
C13_Witness ==
  /\ isDuplicateFlag
  /\ ~isAddable
  /\ inputValue \in LabelsOf(selectedItems)

\* C14 as stated: while a composition is in progress a key press in the input
\* changes neither the active option nor the focus flag and invokes none of
\* onSelect, onAdd, onChangeSelected.
C14_ComposingKeyChangesNothing ==
  [][\A key \in Keys :
       (isComposing /\ KeyDown(key, "input")) =>
         /\ activeOptionIndex' = activeOptionIndex
         /\ isFocused' = isFocused
         /\ ~InvokedNext("onSelect")
         /\ ~InvokedNext("onAdd")
         /\ ~InvokedNext("onChangeSelected")]_vars

\* C14, amended: while a composition is in progress a key press in the input
\* does not change the active option and invokes none of onSelect, onAdd,
\* onChangeSelected; it leaves the focus flag alone unless the key is Escape,
\* which Container onKeyDown still answers with a blur.
C14_ComposingKeySkipsListBox ==
  [][\A key \in Keys :
       (isComposing /\ KeyDown(key, "input")) =>
         /\ activeOptionIndex' = activeOptionIndex
         /\ ~InvokedNext("onSelect")
         /\ ~InvokedNext("onAdd")
         /\ ~InvokedNext("onChangeSelected")
         /\ IF key = "Escape" THEN ~isFocused' ELSE isFocused' = isFocused /\ calls' = <<>>]_vars

\* a key went down during a composition while an option was active, and nothing
\* was selected
C14_Witness ==
  /\ last = "KeyDown"
  /\ isComposing
  /\ isFocused
  /\ activeOptionIndex \in 1..Len(filteredItems)
  /\ calls = <<>>

\* C15: with inputValue supplied, the text shown and filtered on is the owner's
\* value after every step; no step writes the component's own cell, only the
\* owner changes the value, and typing v invokes onChange(v) and
\* onChangeInput(v) and nothing else.
C15_ControlledInputFollowsOwner ==
  [][isInputControlled =>
       /\ inputValue' = controlledInputValue'
       /\ uncontrolledInputValue' = uncontrolledInputValue
       /\ controlledInputValue' # controlledInputValue =>
            \E v \in TypedTexts : SupplyInputValue(v)
       /\ \A v \in TypedTexts :
            InputChange(v) => calls' = << <<"onChange", v>>, <<"onChangeInput", v>> >>]_vars

\* a text was typed into the focused, controlled input and the owner's value is
\* still the one shown
C15_Witness ==
  /\ isInputControlled
  /\ isFocused
  /\ last = "InputChange"
  /\ calls[1][2] # inputValue
  /\ inputValue = controlledInputValue

\* C16: the owner sees onFocus and onBlur alternate, onFocus first: onFocus is
\* never invoked when the later of the two so far was onFocus, and onBlur only
\* when it was.
C16_FocusAndBlurAlternate ==
  [][/\ InvokedNext("onFocus") => (lastFocusCall # "onFocus" /\ Count("onFocus", calls') = 1)
     /\ InvokedNext("onBlur") => (lastFocusCall = "onFocus" /\ Count("onBlur", calls') = 1)]_vars

\* C17: no step enters the focused state while disabled is true.
C17_NoFocusWhileDisabled ==
  [][(~isFocused /\ isFocused') => (~disabled /\ ~disabled')]_vars

\* C19: in uncontrolled mode every step that changes the focus flag, in either
\* direction, leaves the component's own input text empty.
C19_FocusChangeEmptiesUncontrolledInput ==
  [][(~isInputControlled /\ isFocused' # isFocused) =>
       (uncontrolledInputValue' = <<>> /\ inputValue' = <<>>)]_vars

\* a blur has just run in uncontrolled mode
C19_Witness ==
  /\ ~isInputControlled
  /\ last \in {"Escape", "Tab", "OuterClick"}
  /\ Invoked("onBlur")
  /\ ~isFocused
  /\ uncontrolledInputValue = <<>>

\* C18: with pairwise distinct item labels, an initial selection of pairwise
\* distinct labels and an owner that renders with every emitted list before the
\* next event, no selection and no emitted list holds one label twice.
C18_SelectionLabelsStayDistinct ==
  /\ DistinctLabels(selectedItems)
  /\ Invoked("onChangeSelected") => DistinctLabels(emittedSelection)

\* the owner has adopted a list that a select made longer than both the mounted
\* selection could be and one item
C18_Witness ==
  /\ last = "SupplySelectedItems"
  /\ Len(selectedItems) >= 2
  /\ \E i \in 1..Len(selectedItems) : InSeq(selectedItems[i], items)
  /\ \E i \in 1..Len(selectedItems) : ~InSeq(selectedItems[i], items)

====
